---- MODULE Spec2Model ----
(***************************************************************************)
(* perftrace: the sample-to-interval pipeline of src/perftrace/__main__.py *)
(* (parse_events -> merge_events -> convert).  merge_events is modelled    *)
(* as the generator it is: one action per resumption step, every yield     *)
(* being serialised by convert at once (the pipeline is pull-based).       *)
(* Event objects live in a heap, so that the in-place update of            *)
(* last_event.time (line 91) is an update of a shared object.              *)
(***************************************************************************)
EXTENDS Integers, Sequences, FiniteSets, TLC

\* ------------------------------------------------------------------ bounds
\* the input stream has at most MaxLines lines; a record takes a header line,
\* one line per captured frame and a blank line
MaxLines == 9

\* convert on its own is fed at most MaxYields merged events
MaxYields == 3

\* mismatch on its own compares sequences of at most MaxSeq frames
MaxSeq == 3

\* ------------------------------------------------------------- input space
Pids == {1, 2}
Tids == {1}
Times == {1, 2}
Comms == {"comm"}
Frames == {"a", "b"}

SEC_TO_MS == 1000000

Keys == Pids \X Tids

\* the frame of a record without frame lines
NOSTACK == "[[nostack]]"

\* class Event
Event(pid, tid, time, comm, stack) ==
    [pid |-> pid, tid |-> tid, time |-> time, comm |-> comm, stack |-> stack]

\* class EventType
BEGIN == "BEGIN"
END == "END"

\* class MergedEvent; event is a reference to an Event object of the heap
MergedEvent(ev, ty, top) == [event |-> ev, event_type |-> ty, stack_top |-> top]

Min(x, y) == IF x <= y THEN x ELSE y
Max(x, y) == IF x >= y THEN x ELSE y

\* ---------------------------------------------------------------- helpers
\* s[from:] of Python (from is 0-based)
SliceFrom(s, from) == SubSeq(s, from + 1, Len(s))

\* reversed(s), s[::-1]
Reversed(s) == [j \in 1..Len(s) |-> s[Len(s) + 1 - j]]

\* faulty variant: a record without frame lines keeps an empty stack
stack_of_no_sentinel(frame_lines) == Reversed(frame_lines)

\* the stack parse_events builds from the frame lines of a record, which
\* arrive leaf first: insert(0, sym) per line, the sentinel if there is none
stack_of(frame_lines) ==
    IF Len(frame_lines) = 0 THEN <<NOSTACK>> ELSE Reversed(frame_lines)

\* faulty variant: the common prefix is never recognised
mismatch_always_zero(lhs, rhs) == 0

\* faulty variant: the comparison of the zipped elements is left out
mismatch_shorter_length(lhs, rhs) == Min(Len(lhs), Len(rhs))

\* faulty variant: the last differing index is returned, not the first
mismatch_last_difference(lhs, rhs) ==
    LET both == 1..Min(Len(lhs), Len(rhs))
        diff == {j \in both : lhs[j] # rhs[j]}
    IN  IF diff # {}
        THEN (CHOOSE j \in diff : \A k \in diff : j >= k) - 1
        ELSE Min(Len(lhs), Len(rhs))

\* mismatch(lhs, rhs): first index where the zipped sequences differ
mismatch(lhs, rhs) ==
    LET both == 1..Min(Len(lhs), Len(rhs))
        diff == {j \in both : lhs[j] # rhs[j]}
    IN  IF diff # {}
        THEN (CHOOSE j \in diff : \A k \in diff : j <= k) - 1
        ELSE Min(Len(lhs), Len(rhs))

\* faulty variant: threads are told apart by their tid alone
xid_tid_only(e) == <<1, e.tid>>

\* xid = (event.pid, event.tid)
xid_of(e) == <<e.pid, e.tid>>

\* the dict last_event_by_xid keeps insertion order: a sequence of entries
Contains(d, k) == \E j \in 1..Len(d) : d[j].xid = k

Get(d, k) == d[CHOOSE j \in 1..Len(d) : d[j].xid = k].ref

Put(d, k, r) ==
    IF Contains(d, k)
    THEN [j \in 1..Len(d) |-> IF d[j].xid = k THEN [xid |-> k, ref |-> r] ELSE d[j]]
    ELSE Append(d, [xid |-> k, ref |-> r])

\* faulty variant: the identical-stack branch is never taken
same_stack_never(ls, es) == FALSE

\* last_event.stack == event.stack
same_stack(ls, es) == ls = es

\* faulty variant: the stored sample keeps its own timestamp
set_time_skipped(h, ref, t) == h

\* faulty variant: the stored sample's timestamp is cleared
set_time_cleared(h, ref, t) == [h EXCEPT ![ref].time = 0]

\* last_event.time = event.time
set_time(h, ref, t) == [h EXCEPT ![ref].time = t]

\* faulty variant: the frames of a first-seen stack are opened leaf first
first_yields_reversed(ev, stack) ==
    [j \in 1..Len(stack) |-> MergedEvent(ev, BEGIN, Len(stack) - j)]

\* the yields of the loop over a first-seen event's stack
first_yields(ev, stack) ==
    [j \in 1..Len(stack) |-> MergedEvent(ev, BEGIN, j - 1)]

\* faulty variant: the frames that ended are not closed
end_yields_none(le, stack, len, idx) == <<>>

\* faulty variant: the index of an END is counted from len, not len - 1
end_yields_off_by_one(le, stack, len, idx) ==
    [j \in 1..Len(Reversed(SliceFrom(stack, idx))) |->
        MergedEvent(le, END, len - (j - 1))]

\* the yields of the loop over reversed(last_event.stack[mismatch_idx:])
end_yields(le, stack, len, idx) ==
    [j \in 1..Len(Reversed(SliceFrom(stack, idx))) |->
        MergedEvent(le, END, len - ((j - 1) + 1))]

\* faulty variant: the frame at the divergence index is not opened
begin_yields_skip_first(ev, stack, idx) ==
    [j \in 1..Len(SliceFrom(stack, idx + 1)) |->
        MergedEvent(ev, BEGIN, j + idx)]

\* the yields of the loop over event.stack[mismatch_idx:]
begin_yields(ev, stack, idx) ==
    [j \in 1..Len(SliceFrom(stack, idx)) |->
        MergedEvent(ev, BEGIN, (j - 1) + idx)]

\* faulty variant: the outermost frame is left open at the end of input
flush_yields_keep_root(le, stack) ==
    [j \in 1..(Len(stack) - 1) |-> MergedEvent(le, END, Len(stack) - ((j - 1) + 1))]

\* faulty variant: the last stack is closed root first
flush_yields_root_first(le, stack) ==
    [j \in 1..Len(stack) |-> MergedEvent(le, END, j - 1)]

\* the yields of the end-of-input loop over last_event.stack[::-1]
flush_yields(le, stack) ==
    [j \in 1..Len(Reversed(stack)) |->
        MergedEvent(le, END, Len(stack) - ((j - 1) + 1))]

\* event.event.stack[event.stack_top]: Python accepts -len .. len-1
InRange(stack, top) == top >= 0 - Len(stack) /\ top < Len(stack)

Index(stack, top) == IF top >= 0 THEN stack[top + 1] ELSE stack[Len(stack) + top + 1]

\* the object convert writes for one MergedEvent, read from the heap NOW
convert_event(h, me) ==
    [name |-> Index(h[me.event].stack, me.stack_top),
     cat  |-> h[me.event].comm,
     ph   |-> IF me.event_type = BEGIN THEN "B" ELSE "E",
     ts   |-> h[me.event].time * SEC_TO_MS,
     pid  |-> h[me.event].pid,
     tid  |-> h[me.event].tid]

\* what convert writes to outfile, one token per write
NoObject == [name |-> "", cat |-> "", ph |-> "", ts |-> 0, pid |-> 0, tid |-> 0]

Tok(kind) == [kind |-> kind, obj |-> NoObject]

ObjTok(obj) == [kind |-> "object", obj |-> obj]

\* faulty variant: the separator is written before the first object too
separator_always(first) == <<Tok(",")>>

\* if not first_event: print(",", file=outfile)
separator(first) == IF first THEN <<>> ELSE <<Tok(",")>>

\* print(event): the report of a stale reference goes to standard output,
\* which is the sink itself when outfile is sys.stdout
report(to_sink) == IF to_sink THEN <<Tok("report")>> ELSE <<>>

\* the sink accepts `left` more writes (any number when it never closes);
\* the first write after that raises BrokenPipeError and writes nothing
NeverCloses == 0 - 1

write(written, left, toks) ==
    IF left = NeverCloses
    THEN [tokens |-> written \o toks, left |-> left, ok |-> TRUE]
    ELSE IF Len(toks) <= left
    THEN [tokens |-> written \o toks, left |-> left - Len(toks), ok |-> TRUE]
    ELSE [tokens |-> written \o SubSeq(toks, 1, left), left |-> 0, ok |-> FALSE]

\* ------------------------------------------------------------- input text
\* A line of infile is the sequence of its characters without the newline.
MaxInput == 5

Digits == <<"0", "1", "2", "3", "4", "5", "6", "7", "8", "9">>

is_digit(c) == \E d \in DOMAIN Digits : Digits[d] = c

digit(c) == (CHOOSE d \in DOMAIN Digits : Digits[d] = c) - 1

\* int(s) and float(s) of a text of decimal digits; any other text is a
\* ValueError (signs, fractions and exponents are not among the inputs drawn)
is_number(s) == Len(s) > 0 /\ \A k \in DOMAIN s : is_digit(s[k])

RECURSIVE number(_)
number(s) ==
    IF Len(s) = 0 THEN 0
    ELSE Len(Digits) * number(SubSeq(s, 1, Len(s) - 1)) + digit(s[Len(s)])

\* s.split(sep): the pieces between the separators, empty pieces kept
RECURSIVE split_on(_, _)
split_on(s, sep) ==
    IF \A k \in DOMAIN s : s[k] # sep
    THEN <<s>>
    ELSE LET k == CHOOSE k \in DOMAIN s :
                      s[k] = sep /\ \A j \in 1..(k - 1) : s[j] # sep
         IN  <<SubSeq(s, 1, k - 1)>> \o split_on(SubSeq(s, k + 1, Len(s)), sep)

NonEmpty(t) == Len(t) > 0

\* s.split(): the pieces between runs of whitespace, no empty piece
split(s) == SelectSeq(split_on(s, " "), NonEmpty)

\* s.strip(c)
RECURSIVE strip(_, _)
strip(s, c) ==
    IF Len(s) > 0 /\ s[1] = c THEN strip(Tail(s), c)
    ELSE IF Len(s) > 0 /\ s[Len(s)] = c THEN strip(SubSeq(s, 1, Len(s) - 1), c)
    ELSE s

\* the str of a sequence of characters
RECURSIVE text(_)
text(s) == IF Len(s) = 0 THEN "" ELSE s[1] \o text(Tail(s))

\* "".join(toks)
RECURSIVE join(_)
join(toks) == IF Len(toks) = 0 THEN "" ELSE text(toks[1]) \o join(Tail(toks))

\* line.strip() == ""
blank(line) == Len(strip(line, " ")) = 0

\* the header line unpacks and converts without a ValueError
header_ok(line) ==
    /\ Len(split(line)) = 3
    /\ LET pid_tid == split_on(split(line)[2], "/") IN
        /\ Len(pid_tid) = 2
        /\ is_number(pid_tid[1])
        /\ is_number(pid_tid[2])
    /\ is_number(strip(split(line)[3], ":"))

\* the Event a header line creates, its stack still empty
header(line) ==
    LET pid_tid == split_on(split(line)[2], "/") IN
    Event(number(pid_tid[1]), number(pid_tid[2]),
          number(strip(split(line)[3], ":")), text(split(line)[1]), <<>>)

\* _addr, *sym = line.split(); "".join(sym)
frame_sym(line) == join(Tail(split(line)))

\* faulty variant: the frame is appended, the stack stays leaf first
insert_front_appends(stack, sym) == Append(stack, sym)

\* event.stack.insert(0, sym)
insert_front(stack, sym) == <<sym>> \o stack

\* if len(event.stack) == 0: event.stack.append("[[nostack]]")
with_sentinel(stack) == IF Len(stack) = 0 THEN <<NOSTACK>> ELSE stack

\* faulty variant: a record cut short by the end of the input is yielded
at_exhaustion_yields(ne, ev) == IF ne THEN <<>> ELSE <<ev>>

\* what parse_events yields once infile is exhausted: nothing, it returns
at_exhaustion(ne, ev) == <<>>

\* the lines drawn as input: headers, frame lines, blank lines
HeaderLine == <<"c", " ", "1", "/", "1", " ", "1", ":">>
FrameLineA == <<"0", " ", "a">>
FrameLineBX == <<"0", " ", "b", " ", "x">>
EmptyLine == <<>>
SpaceLine == <<" ">>
TwoTokens == <<"c", " ", "1", "/", "1">>
NoSlash == <<"c", " ", "1", " ", "1", ":">>
BadTid == <<"c", " ", "1", "/", "x", " ", "1", ":">>
BadTime == <<"c", " ", "1", "/", "1", " ", "x", ":">>

Lines == {HeaderLine, FrameLineA, FrameLineBX, EmptyLine, SpaceLine, BadTid}
HeaderLines == {HeaderLine, TwoTokens, NoSlash, BadTid, BadTime, EmptyLine, FrameLineA}

\* an Event variable that is not bound yet
NoEvent == Event(0, 0, 0, "", <<>>)

\* ------------------------------------------------------------------ state
VARIABLES
    infile,             \* parse_events: the lines of infile
    new_event,          \* parse_events: new_event
    cur,                \* parse_events: event, the Event being built
    consumed,           \* parse_events: number of lines of infile read so far
    heap,               \* the Event objects parse_events created, by identity
    parsed,             \* history: the Samples as parse_events yielded them
    event_id,           \* merge_events: event_id
    latest_time,        \* merge_events: latest_time
    last_event_by_xid,  \* merge_events: dict xid -> Event (reference)
    depth_by_xid,       \* merge_events: defaultdict xid -> int
    xid,                \* merge_events: xid
    event,              \* merge_events: event (reference), 0 before the first
    last_event,         \* merge_events: last_event (reference)
    mismatch_idx,       \* merge_events: mismatch_idx
    le_len,             \* merge_events: le_len
    i,                  \* merge_events: the running loop's enumerate index
    fpos,               \* merge_events: position of the loop over .items()
    pc,                 \* where the generator stands
    out,                \* convert: the objects written to outfile so far
    tokens,             \* convert: everything written to outfile so far
    first_event,        \* convert: first_event
    writable,           \* the sink: how many more writes it accepts
    to_stdout,          \* convert: outfile is sys.stdout
    mark,               \* history: Len(out) when the current event was read
    prev,               \* history: last_event_by_xid.get(xid) at that moment
    flushmark           \* history: Len(out) when the input was exhausted

vars == <<consumed, heap, parsed, event_id, latest_time, last_event_by_xid, depth_by_xid,
          xid, event, last_event, mismatch_idx, le_len, i, fpos, pc, out, mark,
          prev, flushmark, tokens, first_event, writable, to_stdout,
          infile, new_event, cur>>

locals == <<xid, event, last_event, mismatch_idx, le_len, i, fpos>>
merger == <<event_id, latest_time, last_event_by_xid, depth_by_xid>>
history == <<consumed, parsed, mark, prev, flushmark>>
emitter == <<tokens, first_event, writable, to_stdout>>
parser == <<infile, new_event, cur>>

Init ==
    /\ consumed = 0
    /\ heap = <<>>
    /\ parsed = <<>>
    /\ event_id = 0
    /\ latest_time = 0
    /\ last_event_by_xid = <<>>
    /\ depth_by_xid = [k \in Keys |-> 0]
    /\ xid = <<0, 0>>
    /\ event = 0
    /\ last_event = 0
    /\ mismatch_idx = 0
    /\ le_len = 0
    /\ i = 0
    /\ fpos = 0
    /\ pc = "start"
    /\ out = <<>>
    /\ mark = 0
    /\ prev = 0
    /\ flushmark = 0
    /\ tokens = <<>>
    /\ first_event = TRUE
    /\ writable = NeverCloses
    /\ to_stdout = TRUE
    /\ infile = <<>>
    /\ new_event = TRUE
    /\ cur = NoEvent

\* print("[", file=outfile), outside the try: a closed sink is an uncaught
\* BrokenPipeError
Start ==
    /\ pc = "start"
    /\ LET w == write(tokens, writable, <<Tok("[")>>) IN
        /\ tokens' = w.tokens
        /\ writable' = w.left
        /\ pc' = IF w.ok THEN "next" ELSE "crashed"
    /\ UNCHANGED <<parser, heap, merger, history, locals, out, first_event, to_stdout>>

\* A yield of merge_events, consumed by the body of convert's loop: the
\* separator and the object are written (BrokenPipeError: sys.exit()), or
\* the IndexError branch reports the event, leaves the loop and writes "]"
\* (both outside the try)
Yield(me) ==
    LET sep == write(tokens, writable, separator(first_event)) IN
    /\ first_event' = FALSE
    /\ to_stdout' = to_stdout
    /\ IF ~sep.ok
       THEN /\ tokens' = sep.tokens
            /\ writable' = sep.left
            /\ out' = out
            /\ pc' = "exited"
       ELSE IF InRange(heap[me.event].stack, me.stack_top)
       THEN LET obj == write(sep.tokens, sep.left,
                             <<ObjTok(convert_event(heap, me))>>) IN
            /\ tokens' = obj.tokens
            /\ writable' = obj.left
            /\ out' = IF obj.ok THEN Append(out, convert_event(heap, me)) ELSE out
            /\ pc' = IF obj.ok THEN pc ELSE "exited"
       ELSE LET rpt == write(sep.tokens, sep.left, report(to_stdout))
                end == write(rpt.tokens, rpt.left, <<Tok("]")>>)
            IN  /\ out' = out
                /\ tokens' = IF rpt.ok THEN end.tokens ELSE rpt.tokens
                /\ writable' = IF rpt.ok THEN end.left ELSE rpt.left
                /\ pc' = IF rpt.ok /\ end.ok THEN "stale" ELSE "crashed"

\* for event in parse_events(infile): the next record is read (its header,
\* n frame lines, its blank line); event_id, xid, latest_time
ParseEvent ==
    /\ pc = "next"
    /\ \E pid \in Pids, tid \in Tids, time \in Times, comm \in Comms,
          n \in 0..(MaxLines - consumed - 2) :
        \E frame_lines \in [1..n -> Frames] :
        LET e == Event(pid, tid, time, comm, stack_of(frame_lines)) IN
        /\ consumed' = consumed + n + 2
        /\ heap' = Append(heap, e)
        /\ parsed' = Append(parsed, e)
        /\ xid' = xid_of(e)
        /\ latest_time' = Max(latest_time, e.time)
        /\ prev' = IF Contains(last_event_by_xid, xid_of(e))
                   THEN Get(last_event_by_xid, xid_of(e)) ELSE 0
    /\ event' = Len(heap) + 1
    /\ event_id' = event_id + 1
    /\ mark' = Len(out)
    /\ pc' = "dispatch"
    /\ UNCHANGED <<parser, last_event_by_xid, depth_by_xid, last_event, mismatch_idx,
                   le_len, i, fpos, out, flushmark, emitter>>

\* faulty variant: the malformed record is skipped and the run goes on
ParseError_recovers ==
    /\ pc = "next"
    /\ consumed < MaxLines
    /\ \E line \in HeaderLines : ~header_ok(line)
    /\ consumed' = consumed + 1
    /\ pc' = "next"
    /\ UNCHANGED <<parser, heap, merger, parsed, mark, prev, flushmark, locals, out,
                   emitter>>

\* the header line read raises ValueError (lines 41-47); parse_events,
\* merge_events and convert do not catch it, the run ends with the traceback
ParseError ==
    /\ pc = "next"
    /\ consumed < MaxLines
    /\ \E line \in HeaderLines : ~header_ok(line)
    /\ consumed' = consumed + 1
    /\ pc' = "aborted"
    /\ UNCHANGED <<parser, heap, merger, parsed, mark, prev, flushmark, locals, out,
                   emitter>>

\* if xid not in last_event_by_xid
FirstSeen ==
    /\ pc = "dispatch"
    /\ ~Contains(last_event_by_xid, xid)
    /\ i' = 0
    /\ pc' = "first"
    /\ UNCHANGED <<parser, heap, merger, history, xid, event, last_event, mismatch_idx,
                   le_len, fpos, out, emitter>>

\* else: last_event, mismatch_idx; equal stacks: continue
SameStack ==
    /\ pc = "dispatch"
    /\ Contains(last_event_by_xid, xid)
    /\ LET le == Get(last_event_by_xid, xid) IN
        /\ same_stack(heap[le].stack, heap[event].stack)
        /\ last_event' = le
        /\ mismatch_idx' = mismatch(heap[le].stack, heap[event].stack)
    /\ pc' = "next"
    /\ UNCHANGED <<parser, heap, merger, history, xid, event, le_len, i, fpos, out, emitter>>

\* else: le_len, last_event.time = event.time, then the loop of ENDs
Diverge ==
    /\ pc = "dispatch"
    /\ Contains(last_event_by_xid, xid)
    /\ LET le == Get(last_event_by_xid, xid) IN
        /\ ~same_stack(heap[le].stack, heap[event].stack)
        /\ last_event' = le
        /\ mismatch_idx' = mismatch(heap[le].stack, heap[event].stack)
        /\ le_len' = Len(heap[le].stack)
        /\ heap' = set_time(heap, le, heap[event].time)
    /\ i' = 0
    /\ pc' = "ends"
    /\ UNCHANGED <<parser, merger, history, xid, event, fpos, out, emitter>>

\* first-seen loop: depth_by_xid[xid] += 1; yield BEGIN
YieldFirst ==
    /\ pc = "first"
    /\ i < Len(first_yields(event, heap[event].stack))
    /\ depth_by_xid' = [depth_by_xid EXCEPT ![xid] = @ + 1]
    /\ Yield(first_yields(event, heap[event].stack)[i + 1])
    /\ i' = i + 1
    /\ UNCHANGED <<parser, heap, event_id, latest_time, last_event_by_xid, history, xid,
                   event, last_event, mismatch_idx, le_len, fpos>>

FirstDone ==
    /\ pc = "first"
    /\ i = Len(first_yields(event, heap[event].stack))
    /\ pc' = "store"
    /\ UNCHANGED <<parser, heap, merger, history, locals, out, emitter>>

\* loop of ENDs: depth_by_xid[xid] -= 1; yield END
YieldEnd ==
    /\ pc = "ends"
    /\ i < Len(end_yields(last_event, heap[last_event].stack, le_len, mismatch_idx))
    /\ depth_by_xid' = [depth_by_xid EXCEPT ![xid] = @ - 1]
    /\ Yield(end_yields(last_event, heap[last_event].stack, le_len, mismatch_idx)[i + 1])
    /\ i' = i + 1
    /\ UNCHANGED <<parser, heap, event_id, latest_time, last_event_by_xid, history, xid,
                   event, last_event, mismatch_idx, le_len, fpos>>

EndsDone ==
    /\ pc = "ends"
    /\ i = Len(end_yields(last_event, heap[last_event].stack, le_len, mismatch_idx))
    /\ i' = 0
    /\ pc' = "begins"
    /\ UNCHANGED <<parser, heap, merger, history, xid, event, last_event, mismatch_idx,
                   le_len, fpos, out, emitter>>

\* loop of BEGINs: depth_by_xid[xid] += 1; yield BEGIN
YieldBegin ==
    /\ pc = "begins"
    /\ i < Len(begin_yields(event, heap[event].stack, mismatch_idx))
    /\ depth_by_xid' = [depth_by_xid EXCEPT ![xid] = @ + 1]
    /\ Yield(begin_yields(event, heap[event].stack, mismatch_idx)[i + 1])
    /\ i' = i + 1
    /\ UNCHANGED <<parser, heap, event_id, latest_time, last_event_by_xid, history, xid,
                   event, last_event, mismatch_idx, le_len, fpos>>

BeginsDone ==
    /\ pc = "begins"
    /\ i = Len(begin_yields(event, heap[event].stack, mismatch_idx))
    /\ pc' = "store"
    /\ UNCHANGED <<parser, heap, merger, history, locals, out, emitter>>

\* last_event_by_xid[xid] = event; assert depth_by_xid[xid] == len(...stack)
Store ==
    /\ pc = "store"
    /\ last_event_by_xid' = Put(last_event_by_xid, xid, event)
    /\ pc' = IF depth_by_xid[xid] = Len(heap[event].stack)
             THEN "next" ELSE "assert_failed"
    /\ UNCHANGED <<parser, heap, event_id, latest_time, depth_by_xid, history, locals, out, emitter>>

\* parse_events is exhausted: on to the loop over last_event_by_xid.items()
EndOfInput ==
    /\ pc = "next"
    /\ flushmark' = Len(out)
    /\ fpos' = 0
    /\ pc' = "flush"
    /\ UNCHANGED <<parser, consumed, heap, merger, parsed, mark, prev, xid, event,
                   last_event, mismatch_idx, le_len, i, out, emitter>>

\* for xid, last_event in last_event_by_xid.items(): le_len
FlushKey ==
    /\ pc = "flush"
    /\ fpos < Len(last_event_by_xid)
    /\ fpos' = fpos + 1
    /\ xid' = last_event_by_xid[fpos + 1].xid
    /\ last_event' = last_event_by_xid[fpos + 1].ref
    /\ le_len' = Len(heap[last_event_by_xid[fpos + 1].ref].stack)
    /\ i' = 0
    /\ pc' = "flush_ends"
    /\ UNCHANGED <<parser, heap, merger, history, event, mismatch_idx, out, emitter>>

\* end-of-input loop: depth_by_xid[xid] -= 1; yield END
YieldFlushEnd ==
    /\ pc = "flush_ends"
    /\ i < Len(flush_yields(last_event, heap[last_event].stack))
    /\ depth_by_xid' = [depth_by_xid EXCEPT ![xid] = @ - 1]
    /\ Yield(flush_yields(last_event, heap[last_event].stack)[i + 1])
    /\ i' = i + 1
    /\ UNCHANGED <<parser, heap, event_id, latest_time, last_event_by_xid, history, xid,
                   event, last_event, mismatch_idx, le_len, fpos>>

FlushKeyDone ==
    /\ pc = "flush_ends"
    /\ i = Len(flush_yields(last_event, heap[last_event].stack))
    /\ pc' = "flush"
    /\ UNCHANGED <<parser, heap, merger, history, locals, out, emitter>>

\* the generator returns; convert leaves its loop: print("]", file=outfile)
Finish ==
    LET w == write(tokens, writable, <<Tok("]")>>) IN
    /\ tokens' = w.tokens
    /\ writable' = w.left
    /\ pc' = IF w.ok THEN "done" ELSE "crashed"

FlushDone ==
    /\ pc = "flush"
    /\ fpos = Len(last_event_by_xid)
    /\ Finish
    /\ UNCHANGED <<parser, heap, merger, history, locals, out, first_event, to_stdout>>

Next ==
    \/ Start
    \/ ParseEvent
    \/ ParseError
    \/ FirstSeen
    \/ SameStack
    \/ Diverge
    \/ YieldFirst
    \/ FirstDone
    \/ YieldEnd
    \/ EndsDone
    \/ YieldBegin
    \/ BeginsDone
    \/ Store
    \/ EndOfInput
    \/ FlushKey
    \/ YieldFlushEnd
    \/ FlushKeyDone
    \/ FlushDone

Spec == Init /\ [][Next]_vars

\* ------------------------------------------------- convert as a component
\* convert fed by any generator of MergedEvents over one Event object, any
\* frame index included, writing to a sink that may close after any number
\* of writes; outfile may or may not be standard output
EmitterInit ==
    /\ consumed = 0
    /\ heap \in {<<Event(1, 1, 1, "comm", st)>> : st \in {<<"a">>, <<"a", "b">>}}
    /\ parsed = <<>>
    /\ event_id = 0
    /\ latest_time = 0
    /\ last_event_by_xid = <<>>
    /\ depth_by_xid = [k \in Keys |-> 0]
    /\ xid = <<0, 0>>
    /\ event = 0
    /\ last_event = 0
    /\ mismatch_idx = 0
    /\ le_len = 0
    /\ i = 0
    /\ fpos = 0
    /\ pc = "start"
    /\ out = <<>>
    /\ mark = 0
    /\ prev = 0
    /\ flushmark = 0
    /\ tokens = <<>>
    /\ first_event = TRUE
    /\ writable \in {NeverCloses} \cup 0..(2 * MaxYields + 1)
    /\ to_stdout \in BOOLEAN
    /\ infile = <<>>
    /\ new_event = TRUE
    /\ cur = NoEvent

\* for event in merge_events(infile): the generator yields some MergedEvent
Feed ==
    /\ pc = "next"
    /\ Len(out) < MaxYields
    /\ \E ty \in {BEGIN, END}, top \in (0 - 2)..2 : Yield(MergedEvent(1, ty, top))
    /\ UNCHANGED <<parser, heap, merger, history, locals>>

\* the generator is exhausted: print("]", file=outfile)
Exhausted ==
    /\ pc = "next"
    /\ Finish
    /\ UNCHANGED <<parser, heap, merger, history, locals, out, first_event, to_stdout>>

EmitterNext ==
    \/ Start
    \/ Feed
    \/ Exhausted

EmitterSpec == EmitterInit /\ [][EmitterNext]_vars

\* ----------------------------------------------------- mismatch on its own
\* mismatch applied to any two sequences of frames, the empty one included.
Seqs == UNION {[1..n -> Frames] : n \in 0..MaxSeq}

MismatchInit ==
    /\ heap \in {<<Event(1, 1, 1, "comm", lhs), Event(1, 1, 2, "comm", rhs)>> :
                    lhs \in Seqs, rhs \in Seqs}
    /\ last_event = 1
    /\ event = 2
    /\ pc = "compare"
    /\ infile = <<>>
    /\ new_event = TRUE
    /\ cur = NoEvent
    /\ consumed = 0
    /\ parsed = <<>>
    /\ event_id = 0
    /\ latest_time = 0
    /\ last_event_by_xid = <<>>
    /\ depth_by_xid = [k \in Keys |-> 0]
    /\ xid = <<0, 0>>
    /\ mismatch_idx = 0
    /\ le_len = 0
    /\ i = 0
    /\ fpos = 0
    /\ out = <<>>
    /\ mark = 0
    /\ prev = 0
    /\ flushmark = 0
    /\ tokens = <<>>
    /\ first_event = TRUE
    /\ writable = NeverCloses
    /\ to_stdout = TRUE

\* mismatch_idx = mismatch(last_event.stack, event.stack)
Compare ==
    /\ pc = "compare"
    /\ mismatch_idx' = mismatch(heap[last_event].stack, heap[event].stack)
    /\ pc' = "compared"
    /\ UNCHANGED <<parser, heap, merger, history, xid, event, last_event, le_len,
                   i, fpos, out, emitter>>

MismatchNext == Compare

MismatchSpec == MismatchInit /\ [][MismatchNext]_vars

\* ------------------------------------------------- parse_events as a component
\* parse_events over an arbitrary infile, line by line.
ParserInit ==
    /\ infile \in UNION {[1..n -> Lines] : n \in 0..MaxInput}
    /\ new_event = TRUE
    /\ cur = NoEvent
    /\ consumed = 0
    /\ heap = <<>>
    /\ parsed = <<>>
    /\ event_id = 0
    /\ latest_time = 0
    /\ last_event_by_xid = <<>>
    /\ depth_by_xid = [k \in Keys |-> 0]
    /\ xid = <<0, 0>>
    /\ event = 0
    /\ last_event = 0
    /\ mismatch_idx = 0
    /\ le_len = 0
    /\ i = 0
    /\ fpos = 0
    /\ pc = "parsing"
    /\ out = <<>>
    /\ mark = 0
    /\ prev = 0
    /\ flushmark = 0
    /\ tokens = <<>>
    /\ first_event = TRUE
    /\ writable = NeverCloses
    /\ to_stdout = TRUE

\* the line the for loop reads next
line == infile[consumed + 1]

rest == <<heap, merger, locals, mark, prev, flushmark, out, emitter>>

\* if new_event: the header line builds the Event
ReadHeader ==
    /\ pc = "parsing" /\ consumed < Len(infile)
    /\ new_event /\ header_ok(line)
    /\ cur' = header(line)
    /\ new_event' = FALSE
    /\ consumed' = consumed + 1
    /\ UNCHANGED <<infile, parsed, pc, rest>>

\* if new_event: the header line raises ValueError
ReadBadHeader ==
    /\ pc = "parsing" /\ consumed < Len(infile)
    /\ new_event /\ ~header_ok(line)
    /\ consumed' = consumed + 1
    /\ pc' = "aborted"
    /\ UNCHANGED <<parser, parsed, rest>>

\* else, the line is not blank: a frame line
ReadFrame ==
    /\ pc = "parsing" /\ consumed < Len(infile)
    /\ ~new_event /\ ~blank(line)
    /\ cur' = [cur EXCEPT !.stack = insert_front(@, frame_sym(line))]
    /\ consumed' = consumed + 1
    /\ UNCHANGED <<infile, new_event, parsed, pc, rest>>

\* else, the line is blank: yield event
ReadBlank ==
    /\ pc = "parsing" /\ consumed < Len(infile)
    /\ ~new_event /\ blank(line)
    /\ cur' = [cur EXCEPT !.stack = with_sentinel(@)]
    /\ parsed' = Append(parsed, cur')
    /\ new_event' = TRUE
    /\ consumed' = consumed + 1
    /\ UNCHANGED <<infile, pc, rest>>

\* infile is exhausted: the for loop ends and parse_events returns
ReadEnd ==
    /\ pc = "parsing" /\ consumed = Len(infile)
    /\ parsed' = parsed \o at_exhaustion(new_event, cur)
    /\ pc' = "eof"
    /\ UNCHANGED <<parser, consumed, rest>>

ParserNext ==
    \/ ReadHeader
    \/ ReadBadHeader
    \/ ReadFrame
    \/ ReadBlank
    \/ ReadEnd

ParserSpec == ParserInit /\ [][ParserNext]_vars

\* ------------------------------------------- merge_events on a whole input
\* what convert writes for a run of yields, read from the heap h
Written(h, ys) == [j \in 1..Len(ys) |-> convert_event(h, ys[j])]

\* the loop over parse_events for a whole input of ONE thread key: what has
\* been written and which sample is stored when the input is exhausted
RECURSIVE MergeSteps(_)
MergeSteps(samples) ==
    IF samples = <<>> THEN [out |-> <<>>, seen |-> FALSE, last |-> <<>>]
    ELSE LET r == MergeSteps(SubSeq(samples, 1, Len(samples) - 1))
             e == samples[Len(samples)]
         IN  IF ~r.seen
             THEN [out |-> r.out \o Written(<<e>>, first_yields(1, e.stack)),
                   seen |-> TRUE, last |-> e]
             ELSE IF same_stack(r.last.stack, e.stack) THEN r
             ELSE LET idx == mismatch(r.last.stack, e.stack)
                      h == set_time(<<r.last, e>>, 1, e.time)
                  IN  [out |-> r.out
                                 \o Written(h, end_yields(1, r.last.stack,
                                                          Len(r.last.stack), idx))
                                 \o Written(h, begin_yields(2, e.stack, idx)),
                       seen |-> TRUE, last |-> e]

\* merge_events and convert on a whole input of one thread key, flush included
merge_alone(samples) ==
    LET r == MergeSteps(samples)
    IN  IF r.seen
        THEN r.out \o Written(<<r.last>>, flush_yields(1, r.last.stack))
        ELSE r.out

\* ------------------------------------------------- reading the output back
\* the written objects of one thread key (pid, tid)
ByKey(s, k) == SelectSeq(s, LAMBDA e : <<e.pid, e.tid>> = k)

\* the written objects carrying one threadId in their tid field
ByTid(s, t) == SelectSeq(s, LAMBDA e : e.tid = t)

Count(s, ph) == Len(SelectSeq(s, LAMBDA e : e.ph = ph))

\* number of BEGINs so far minus number of ENDs so far
Running(s) == Count(s, "B") - Count(s, "E")

Shape(s) == [j \in 1..Len(s) |-> <<s[j].ph, s[j].name>>]

KeyOf(e) == <<e.pid, e.tid>>

\* what was written since the current sample was read
Emitted == SubSeq(out, mark + 1, Len(out))

\* what was written since the input was exhausted
Flushed == SubSeq(out, flushmark + 1, Len(out))

\* the sample whose processing has just been completed
Processed == pc = "next" /\ event_id > 0

S == parsed[event_id]

P == parsed[prev]

SeenBefore == \E j \in 1..(event_id - 1) : KeyOf(parsed[j]) = KeyOf(S)

MaxOver(set) == IF set = {} THEN 0 ELSE CHOOSE m \in set : \A n \in set : n <= m

\* deepest stack among the samples read so far that satisfy sel
MaxDepthSeen(sel(_)) ==
    MaxOver({Len(parsed[j].stack) : j \in {n \in 1..Len(parsed) : sel(parsed[n])}})

\* the last sample read for a thread key
LastOf(k) ==
    parsed[MaxOver({j \in 1..Len(parsed) : KeyOf(parsed[j]) = k})]

SeenKeys == {KeyOf(parsed[j]) : j \in 1..Len(parsed)}

\* C1: once the input is exhausted and the flush has run, every thread (by
\* key and by thread id) has as many BEGINs as ENDs in the output, and no
\* thread has a non-zero open-frame count.
C1_Balanced ==
    pc = "done" =>
        /\ \A k \in Keys :
            /\ Count(ByKey(out, k), "B") = Count(ByKey(out, k), "E")
            /\ depth_by_xid[k] = 0
        /\ \A t \in Tids : Count(ByTid(out, t), "B") = Count(ByTid(out, t), "E")

C1_Witness ==
    /\ pc = "done"
    /\ Cardinality(SeenKeys) >= 2
    /\ \E k \in SeenKeys : Count(ByKey(out, k), "B") >= 3

Front(s) == SubSeq(s, 1, Len(s) - 1)

\* replay of written objects as push(name) for "B" and pop for "E"; ok turns
\* FALSE at the first "E" that does not name the frame on top of the stack
RECURSIVE Replay(_)
Replay(s) ==
    IF s = <<>> THEN [ok |-> TRUE, stack |-> <<>>]
    ELSE LET r == Replay(Front(s))
             e == s[Len(s)]
         IN  IF ~r.ok THEN r
             ELSE IF e.ph = "B" THEN [ok |-> TRUE, stack |-> Append(r.stack, e.name)]
             ELSE IF r.stack # <<>> /\ r.stack[Len(r.stack)] = e.name
                  THEN [ok |-> TRUE, stack |-> Front(r.stack)]
                  ELSE [ok |-> FALSE, stack |-> r.stack]

\* C2: for every thread key the written events replay as a valid stack
\* discipline (every END names the frame on top of the replayed stack), and
\* once a sample S has been fully processed the replayed stack of its thread
\* equals S.frames.
C2_WellNested ==
    /\ \A k \in Keys : Replay(ByKey(out, k)).ok
    /\ Processed => Replay(ByKey(out, KeyOf(S))).stack = S.stack

C2_Witness ==
    /\ Processed
    /\ prev # 0
    /\ P.stack = <<"a", "b">>
    /\ S.stack = <<"b">>
    /\ Shape(Emitted) = <<<<"E", "b">>, <<"E", "a">>, <<"B", "b">>>>
    /\ Replay(ByKey(out, KeyOf(S))).stack = <<"b">>
    /\ \E k \in SeenKeys : k # KeyOf(S)

\* C3 as stated: restricted to the events carrying one threadId in their
\* tid field, the running BEGIN - END count stays within 0 and the deepest
\* stack of any sample of that thread id.
C3_RunningByTid ==
    \A t \in Tids :
        /\ Running(ByTid(out, t)) >= 0
        /\ Running(ByTid(out, t)) <= MaxDepthSeen(LAMBDA e : e.tid = t)

\* C3 as amended: restricted to the events of one thread key (pid, tid), the
\* running BEGIN - END count stays within 0 and the deepest stack of any
\* sample of that key; restricted to a thread id alone it is still >= 0.
C3_RunningByKey ==
    /\ \A k \in Keys :
        /\ Running(ByKey(out, k)) >= 0
        /\ Running(ByKey(out, k)) <= MaxDepthSeen(LAMBDA e : KeyOf(e) = k)
    /\ \A t \in Tids : Running(ByTid(out, t)) >= 0

C3_Witness ==
    \E k \in Keys :
        /\ Count(ByKey(out, k), "E") >= 1
        /\ Running(ByKey(out, k)) = 2
        /\ Running(ByKey(out, k)) = MaxDepthSeen(LAMBDA e : KeyOf(e) = k)
        /\ \E k2 \in SeenKeys : k2 # k /\ k2[2] = k[2]

\* length of the longest common prefix of two frame sequences
Lcp(p, s) ==
    CHOOSE d \in 0..Min(Len(p), Len(s)) :
        /\ \A j \in 1..d : p[j] = s[j]
        /\ d = Min(Len(p), Len(s)) \/ p[d + 1] # s[d + 1]

\* ENDs for positions len-1 down to d of frames p, as <<phase, name>>
EndsDownTo(p, d) == [j \in 1..(Len(p) - d) |-> <<"E", p[Len(p) + 1 - j]>>]

\* BEGINs for positions d up to len-1 of frames s, as <<phase, name>>
BeginsFrom(s, d) == [j \in 1..(Len(s) - d) |-> <<"B", s[d + j]>>]

\* a sample of an already-seen thread whose frames differ from the stored one
Diverged == Processed /\ prev # 0 /\ P.stack # S.stack

\* C4: for a sample S of an already-seen thread whose frames differ from the
\* stored sample P, with d the length of their longest common prefix, exactly
\* the ENDs of P.frames from the last index down to d and then the BEGINs of
\* S.frames from d up to the last index are written, all for that thread, and
\* S is then the stored sample.
C4_DivergenceEvents ==
    Diverged =>
        /\ Shape(Emitted) =
              EndsDownTo(P.stack, Lcp(P.stack, S.stack))
                  \o BeginsFrom(S.stack, Lcp(P.stack, S.stack))
        /\ \A j \in 1..Len(Emitted) : KeyOf(Emitted[j]) = KeyOf(S)
        /\ Get(last_event_by_xid, KeyOf(S)) = event_id
        /\ heap[event_id] = S

C4_Witness ==
    /\ Diverged
    /\ P.stack = <<"a", "b", "a">>
    /\ S.stack = <<"a", "a">>
    /\ Shape(Emitted) = <<<<"E", "a">>, <<"E", "b">>, <<"B", "a">>>>

\* the step that decides what to do with a sample whose frames equal the
\* frames of the sample stored for its thread
SameFramesStep == pc = "dispatch" /\ prev # 0 /\ P.stack = S.stack

\* C5: a sample of an already-seen thread whose frames equal the stored
\* sample's frames writes nothing and leaves the stored samples (objects and
\* their timestamps), the open-frame counts and the output as they were before
\* it was read; the merger is then ready for the next sample.
C5_IdenticalNoOp ==
    [][/\ SameFramesStep =>
            /\ out' = out
            /\ heap' = heap
            /\ last_event_by_xid' = last_event_by_xid
            /\ depth_by_xid' = depth_by_xid
            /\ pc' = "next"
            /\ Get(last_event_by_xid, KeyOf(S)) = prev
            /\ heap[prev] = P
       /\ (pc = "next" /\ pc' = "dispatch") =>
            /\ out' = out
            /\ last_event_by_xid' = last_event_by_xid
            /\ depth_by_xid' = depth_by_xid
            /\ SubSeq(heap', 1, Len(heap)) = heap]_vars

C5_Witness ==
    /\ Processed
    /\ prev # 0
    /\ P.stack = S.stack
    /\ P.time # S.time
    /\ Len(out) = mark
    /\ Cardinality(SeenKeys) >= 2

\* C6: at the end of the run the events written since the input was
\* exhausted are, for every thread key ever seen, the ENDs of all frames of
\* its last sample from the last index down to index 0, and nothing else: no
\* BEGIN, no event of another key; they follow every event written while
\* samples were processed.
C6_Flush ==
    pc = "done" =>
        /\ \A k \in SeenKeys :
              Shape(ByKey(Flushed, k)) = EndsDownTo(LastOf(k).stack, 0)
        /\ \A j \in 1..Len(Flushed) :
              Flushed[j].ph = "E" /\ KeyOf(Flushed[j]) \in SeenKeys
        /\ flushmark <= Len(out)
        /\ Count(SubSeq(out, 1, flushmark), "B") = Count(out, "B")

C6_Witness ==
    /\ pc = "done"
    /\ Cardinality(SeenKeys) >= 2
    /\ \E k \in SeenKeys :
          Shape(ByKey(Flushed, k)) = <<<<"E", "b">>, <<"E", "a">>>>

\* C7: for the first sample S of a thread key not seen before, exactly one
\* BEGIN per frame of S.frames is written, root to leaf, no END, all for that
\* thread, and S is then the stored sample.
C7_FirstSight ==
    (Processed /\ ~SeenBefore) =>
        /\ Shape(Emitted) = BeginsFrom(S.stack, 0)
        /\ \A j \in 1..Len(Emitted) : KeyOf(Emitted[j]) = KeyOf(S)
        /\ Get(last_event_by_xid, KeyOf(S)) = event_id
        /\ heap[event_id] = S

C7_Witness ==
    /\ Processed
    /\ ~SeenBefore
    /\ mark > 0
    /\ Shape(Emitted) = <<<<"B", "a">>, <<"B", "b">>>>

\* the samples read so far for one thread key, in input order
SamplesOf(k) == SelectSeq(parsed, LAMBDA e : KeyOf(e) = k)

\* C8: in every interleaving of the samples of several thread keys, the
\* events written for one key (names, phases, timestamps, flush included) are
\* the events written when that key's samples are processed alone, both after
\* each processed sample and at the end of the run.
C8_ThreadIndependence ==
    /\ Processed => \A k \in Keys : ByKey(out, k) = MergeSteps(SamplesOf(k)).out
    /\ pc = "done" => \A k \in Keys : ByKey(out, k) = merge_alone(SamplesOf(k))

C8_Witness ==
    /\ pc = "done"
    /\ Len(parsed) = 3
    /\ KeyOf(parsed[1]) = KeyOf(parsed[3])
    /\ KeyOf(parsed[2]) # KeyOf(parsed[1])
    /\ KeyOf(parsed[2])[2] = KeyOf(parsed[1])[2]
    /\ parsed[1].stack # parsed[3].stack
    /\ parsed[1].time # parsed[3].time
    /\ Len(ByKey(out, KeyOf(parsed[1]))) >= 6

\* C9: every event written in the divergence branch, the ENDs of the frames
\* of the previous sample P as well as the BEGINs, carries the timestamp of
\* the new sample S, not the one of P.
C9_DivergenceTimestamps ==
    Diverged => \A j \in 1..Len(Emitted) : Emitted[j].ts = S.time * SEC_TO_MS

C9_Witness ==
    /\ Diverged
    /\ P.time # S.time
    /\ Count(Emitted, "E") >= 1
    /\ Count(Emitted, "B") >= 1
    /\ \A j \in 1..Len(Emitted) : Emitted[j].ts # P.time * SEC_TO_MS

\* C10: the assertion of merge_events never fails, and whenever a sample has
\* been fully processed (identical-stack branch included) the open-frame
\* count of every tracked key is the number of frames of its stored sample
\* (0 for a key never seen).
C10_DepthInvariant ==
    /\ pc # "assert_failed"
    /\ pc = "next" =>
          \A k \in Keys :
              IF Contains(last_event_by_xid, k)
              THEN depth_by_xid[k] = Len(heap[Get(last_event_by_xid, k)].stack)
              ELSE depth_by_xid[k] = 0

C10_Witness ==
    /\ Processed
    /\ prev # 0
    /\ Len(P.stack) # Len(S.stack)
    /\ depth_by_xid[KeyOf(S)] = Len(S.stack)
    /\ \E k \in SeenKeys : k # KeyOf(S) /\ depth_by_xid[k] >= 1

\* ------------------------------------------------------ the written array
\* the objects of s with one separator between consecutive objects
RECURSIVE Joined(_)
Joined(s) ==
    IF Len(s) = 0 THEN <<>>
    ELSE IF Len(s) = 1 THEN <<ObjTok(s[1])>>
    ELSE Joined(Front(s)) \o <<Tok(","), ObjTok(s[Len(s)])>>

\* a well-formed array of complete event objects: "[", objects separated by
\* single commas, "]", and nothing else
WellFormedArray(toks) ==
    \E objs \in {SubSeq(out, 1, n) : n \in 0..Len(out)} :
        toks = <<Tok("[")>> \o Joined(objs) \o <<Tok("]")>>

C12_ArrayShape ==
    /\ pc = "done" => tokens = <<Tok("[")>> \o Joined(out) \o <<Tok("]")>>
    /\ pc \notin {"start", "done"} => tokens = <<Tok("[")>> \o Joined(out)
    /\ (pc = "done" /\ Len(parsed) = 0) => tokens = <<Tok("["), Tok("]")>>

C12_Witness ==
    /\ pc = "done"
    /\ Len(parsed) >= 2
    /\ Len(out) >= 4
    /\ Len(tokens) = 2 * Len(out) + 1

\* C13: whenever the sink is closed when convert writes (the opening
\* bracket, a separator, an object or the closing bracket) the process ends
\* silently: it never ends with an uncaught exception, and it ends only
\* when the sink accepts no further write.
C13_SinkClosedSilent ==
    /\ pc # "crashed"
    /\ pc = "exited" => writable = 0

\* C14: a header line that does not parse aborts the whole run: the step that
\* reads it (one line read, no sample yielded) yields no sample, writes
\* nothing and takes back nothing, and no step follows the abort: no later
\* sample, no event, no flush, no closing bracket.
C14_AbortsWholeRun ==
    [][/\ pc # "aborted"
       /\ (pc = "next" /\ consumed' = consumed + 1) =>
            /\ pc' = "aborted"
            /\ parsed' = parsed
            /\ out' = out
            /\ tokens' = tokens]_vars

C14_Witness ==
    /\ pc = "aborted"
    /\ Len(parsed) >= 1
    /\ Len(out) >= 2
    /\ tokens = <<Tok("[")>> \o Joined(out)

\* the index of the first blank line of ls
FirstBlank(ls) ==
    CHOOSE k \in DOMAIN ls : blank(ls[k]) /\ \A j \in 1..(k - 1) : ~blank(ls[j])

\* ls is made of records: a header line, frame lines, a blank line
RECURSIVE IsRecords(_)
IsRecords(ls) ==
    \/ Len(ls) = 0
    \/ /\ header_ok(ls[1])
       /\ \E k \in DOMAIN ls : blank(ls[k])
       /\ IsRecords(SubSeq(ls, FirstBlank(ls) + 1, Len(ls)))

\* the records of ls, each without its blank line
RECURSIVE Records(_)
Records(ls) ==
    IF Len(ls) = 0 THEN <<>>
    ELSE <<SubSeq(ls, 1, FirstBlank(ls) - 1)>>
             \o Records(SubSeq(ls, FirstBlank(ls) + 1, Len(ls)))

\* the frames named by the frame lines of a record, in arrival order
FrameSyms(rec) == [k \in 1..(Len(rec) - 1) |-> frame_sym(rec[k + 1])]

\* the parser has yielded one Sample per record, in input order, with the
\* fields of the record's header
OnePerRecord ==
    /\ Len(parsed) = Len(Records(infile))
    /\ \A r \in DOMAIN parsed :
           [parsed[r] EXCEPT !.stack = <<>>] = header(Records(infile)[r][1])

\* C15 as stated: for an input made of blank-line-terminated records the
\* parser yields one Sample per record in input order, and the frames of each
\* Sample are the frame lines of its record in reverse arrival order.
C15_ReversedFrames ==
    (pc = "eof" /\ IsRecords(infile)) =>
        /\ OnePerRecord
        /\ \A r \in DOMAIN parsed :
               parsed[r].stack = Reversed(FrameSyms(Records(infile)[r]))

\* C15 amended: for an input made of blank-line-terminated records the parser
\* ends without an error having yielded one Sample per record in input order;
\* the frames of a Sample are the frame lines of its record in reverse arrival
\* order when the record has at least one frame line, and the single sentinel
\* frame when it has none.
C15_ReversedOrSentinel ==
    IsRecords(infile) =>
        /\ pc # "aborted"
        /\ pc = "eof" =>
            /\ OnePerRecord
            /\ \A r \in DOMAIN parsed :
                   parsed[r].stack =
                       IF Len(FrameSyms(Records(infile)[r])) = 0
                       THEN <<NOSTACK>>
                       ELSE Reversed(FrameSyms(Records(infile)[r]))

C15_Witness ==
    /\ pc = "eof"
    /\ IsRecords(infile)
    /\ Len(parsed) = 1
    /\ infile[2] = FrameLineA
    /\ infile[3] = FrameLineBX
    /\ parsed[1].stack = <<"bx", "a">>

\* C16: every Sample the parser yields has at least one frame; a record
\* without frame lines (two lines read: header and blank line) yields the
\* single sentinel frame; and a sentinel sample that follows a sentinel sample
\* of the same thread writes nothing.
C16_Sentinel ==
    /\ [](/\ \A k \in DOMAIN parsed : Len(parsed[k].stack) >= 1
          /\ \A k \in DOMAIN heap : Len(heap[k].stack) >= 1
          /\ (/\ Processed
              /\ prev # 0
              /\ P.stack = <<NOSTACK>>
              /\ S.stack = <<NOSTACK>>) => Len(out) = mark)
    /\ [][(pc = "next" /\ pc' = "dispatch" /\ consumed' = consumed + 2) =>
            /\ heap'[event'].stack = <<NOSTACK>>
            /\ parsed'[Len(parsed')].stack = <<NOSTACK>>]_vars

C16_Witness ==
    /\ Processed
    /\ prev # 0
    /\ P.stack = <<NOSTACK>>
    /\ S.stack = <<NOSTACK>>
    /\ Len(out) = mark
    /\ Len(out) >= 1

\* C20: the parser yields a Sample only in the step that reads the blank
\* line ending a record, one Sample per such line; when the input is
\* exhausted, inside a record or not, it ends without an error and yields
\* nothing more, so the samples the merger gets are those of the terminated
\* records only.
C20_YieldOnlyAtBlank ==
    [][/\ parsed' # parsed =>
            /\ pc = "parsing"
            /\ consumed < Len(infile)
            /\ ~new_event
            /\ blank(line)
            /\ Len(parsed') = Len(parsed) + 1
       /\ (pc = "parsing" /\ consumed = Len(infile)) =>
            /\ pc' = "eof"
            /\ parsed' = parsed]_vars

C20_Witness ==
    /\ pc = "eof"
    /\ ~new_event
    /\ Len(cur.stack) >= 1
    /\ Len(parsed) = 1
    /\ consumed >= 4

\* C17: for any two sequences, the empty one included, the index d that
\* mismatch returns is at most the length of the shorter one, the sequences
\* agree at every index below d, and either both are defined at d and differ
\* there, or they differ nowhere and d is the length of the shorter one.
C17_DivergenceIndex ==
    pc = "compared" =>
        LET lhs == heap[last_event].stack
            rhs == heap[event].stack
            d == mismatch_idx
            shorter == IF Len(lhs) <= Len(rhs) THEN Len(lhs) ELSE Len(rhs)
        IN  /\ 0 <= d /\ d <= shorter
            /\ \A j \in 1..d : lhs[j] = rhs[j]
            /\ \/ d < shorter /\ lhs[d + 1] # rhs[d + 1]
               \/ d = shorter /\ \A j \in 1..shorter : lhs[j] = rhs[j]

C17_Witness ==
    /\ pc = "compared"
    /\ heap[last_event].stack = <<"a", "b", "a">>
    /\ heap[event].stack = <<"a", "a", "b">>
    /\ mismatch_idx = 1

\* 0 <= stack_top < len(event.stack) for the sample the event refers to
Within(me) == 0 <= me.stack_top /\ me.stack_top < Len(heap[me.event].stack)

AllWithin(yields) == \A j \in DOMAIN yields : Within(yields[j])

\* C18: in each of the four loops of the merger (first sight, ENDs and BEGINs
\* of a divergence, flush) every event of the loop has 0 <= stack_top <
\* len(event.stack) for the sample it refers to, and the emitter never takes
\* its out-of-range branch.
C18_IndexInRange ==
    /\ pc # "stale"
    /\ pc = "first" => AllWithin(first_yields(event, heap[event].stack))
    /\ pc = "ends" =>
        AllWithin(end_yields(last_event, heap[last_event].stack, le_len, mismatch_idx))
    /\ pc = "begins" => AllWithin(begin_yields(event, heap[event].stack, mismatch_idx))
    /\ pc = "flush_ends" => AllWithin(flush_yields(last_event, heap[last_event].stack))

C18_Witness ==
    /\ pc = "done"
    /\ Len(out) > flushmark
    /\ \E j \in 1..flushmark, k \in 1..flushmark :
        /\ j < k
        /\ out[j].ph = "E"
        /\ out[k].ph = "B"

NonDecreasing(ts) == \A j \in DOMAIN ts : \A k \in DOMAIN ts : j <= k => ts[j] <= ts[k]

\* replay of the written objects of one thread: a "B" pushes its timestamp, an
\* "E" pops the timestamp of the "B" it closes; ok turns FALSE at the first
\* "E" that is earlier than its "B"
RECURSIVE ReplayTs(_)
ReplayTs(s) ==
    IF s = <<>> THEN [ok |-> TRUE, open |-> <<>>]
    ELSE LET r == ReplayTs(Front(s))
             e == s[Len(s)]
         IN  IF ~r.ok THEN r
             ELSE IF e.ph = "B" THEN [ok |-> TRUE, open |-> Append(r.open, e.ts)]
             ELSE [ok |-> Len(r.open) > 0 /\ r.open[Len(r.open)] <= e.ts,
                   open |-> Front(r.open)]

\* C19: for every thread key whose samples arrive with non-decreasing
\* timestamps the timestamps of its written events never decrease, the flush
\* included, and every END is at or after the BEGIN it closes; every BEGIN
\* written for a sample carries that sample's original timestamp; and what
\* has been written is never altered by a later step.
C19_Timestamps ==
    /\ [](/\ \A k \in Keys :
                NonDecreasing([j \in DOMAIN SamplesOf(k) |-> SamplesOf(k)[j].time]) =>
                    /\ NonDecreasing([j \in DOMAIN ByKey(out, k) |-> ByKey(out, k)[j].ts])
                    /\ ReplayTs(ByKey(out, k)).ok
          /\ event_id > 0 =>
                \A j \in DOMAIN Emitted :
                    Emitted[j].ph = "B" => Emitted[j].ts = S.time * SEC_TO_MS)
    /\ [][SubSeq(out', 1, Len(out)) = out]_vars

C19_Witness ==
    /\ pc = "done"
    /\ \E k \in Keys :
        /\ Len(SamplesOf(k)) >= 2
        /\ SamplesOf(k)[1].time < SamplesOf(k)[2].time
        /\ heap[1].time # parsed[1].time
        /\ KeyOf(parsed[1]) = k
        /\ \E j \in DOMAIN ByKey(out, k) : \E n \in DOMAIN ByKey(out, k) :
            /\ j < n
            /\ ByKey(out, k)[j].ph = "B"
            /\ ByKey(out, k)[n].ph = "E"
            /\ ByKey(out, k)[j].ts < ByKey(out, k)[n].ts

====
